---- MODULE Spec2Model ----
(***************************************************************************)
(* A model of the two utilities of the repository:                         *)
(*   - CacheLauncher's ConfigHandler (source/config_handler.py): the       *)
(*     schema check, get_config and save_config over one JSON file;        *)
(*   - the NinjaRMM API client (NinjaAPI/ninja_api_auth.py): the OAuth     *)
(*     credential, the client's constructor, request,                      *)
(*     refresh_documentation and get_sorted_docs.                          *)
(* Three specifications share the variables: SpecConfig (the               *)
(* ConfigHandler), Spec (the client) and SpecDocs (get_sorted_docs); each  *)
(* leaves the other components' variables alone.                           *)
(***************************************************************************)
EXTENDS Integers, Sequences, FiniteSets, TLC

VARIABLES
    file,           \* the configuration file: [exists, text], text a token sequence
    cfgCall,        \* the last ConfigHandler call: [op, arg, before, outcome, ret]
    lastSave,       \* the last save_config call: [outcome, arg]
    now,            \* time.time(), in whole seconds
    client,         \* "none" | "ready" | "failed": the NinjaRMMAPI object
    oauth,          \* self._oauth
    documentation,  \* self.documentation
    issued,         \* access tokens the token endpoint has handed out so far
    call,           \* the last NinjaRMMAPI call: what it did on the network, its outcome
    sorted          \* the last result of get_sorted_docs

cfgVars == <<file, cfgCall, lastSave>>
apiVars == <<now, client, oauth, issued, call>>
docVars == <<documentation, sorted>>
vars == <<file, cfgCall, lastSave, now, client, oauth, documentation, issued, call, sorted>>

(***************************************************************************)
(* Python values, as the json module and the schema check see them.  Every *)
(* value has the same three fields: a type tag, a scalar payload and the   *)
(* items of a container (a dict's items are <<key, value>> pairs in        *)
(* insertion order).                                                       *)
(***************************************************************************)
PyStr(s) == [t |-> "str", s |-> s, items |-> <<>>]
PyInt(s) == [t |-> "int", s |-> s, items |-> <<>>]
PyTrue == [t |-> "bool", s |-> "True", items |-> <<>>]
PyFalse == [t |-> "bool", s |-> "False", items |-> <<>>]
PyNone == [t |-> "NoneType", s |-> "None", items |-> <<>>]
PyList(xs) == [t |-> "list", s |-> "", items |-> xs]
PyTuple(xs) == [t |-> "tuple", s |-> "", items |-> xs]
PyDict(kvs) == [t |-> "dict", s |-> "", items |-> kvs]
PySet(xs) == [t |-> "set", s |-> "", items |-> xs]

\* key in d, for a dict d and a str key
DictHas(d, key) == \E i \in 1..Len(d.items) : d.items[i][1] = PyStr(key)

\* d[key], for a dict d that has the str key
DictGet(d, key) ==
    d.items[CHOOSE i \in 1..Len(d.items) : d.items[i][1] = PyStr(key)][2]

\* d[k] = v on a list of items: an existing key keeps its place and takes the
\* new value, a new key goes last
DictSet(kvs, k, v) ==
    IF \E i \in 1..Len(kvs) : kvs[i][1] = k
    THEN [i \in 1..Len(kvs) |-> IF kvs[i][1] = k THEN <<k, v>> ELSE kvs[i]]
    ELSE Append(kvs, <<k, v>>)

\* the affixes a model string may carry around a key name
Affix == {"", "x-", "-y"}

\* key in s, for two strings: key is a substring of s
IsSubstring(key, s) == \E p \in Affix, q \in Affix : p \o key \o q = s

(***************************************************************************)
(* _config_isvalid.  One step of its four loops is                         *)
(*     key not in c or not isinstance(c[key], expected_type)               *)
(* which passes, fails (return False), or raises TypeError when c is not a *)
(* dict: "in" raises on an int, a bool or None, and c[key] raises on a     *)
(* list or a str that holds the key.                                       *)
(***************************************************************************)
required_keys == << <<"appName", "str">>, <<"version", "str">>,
                    <<"settings", "dict">>, <<"paths", "dict">> >>
settings_keys == << <<"ui", "dict">>, <<"logLevel", "str">> >>
ui_keys == << <<"gui", "bool">>, <<"theme", "str">> >>
paths_keys == << <<"cacheDirectory", "str">>, <<"logFile", "str">> >>

IsInstance(v, ty) == v.t = ty

KeyCheck(c, key, ty) ==
    CASE c.t = "dict" ->
           IF DictHas(c, key) /\ IsInstance(DictGet(c, key), ty) THEN "pass" ELSE "fail"
      [] c.t \in {"list", "tuple"} ->
           IF \E i \in 1..Len(c.items) : c.items[i] = PyStr(key)
           THEN "TypeError" ELSE "fail"
      [] c.t = "str" -> IF IsSubstring(key, c.s) THEN "TypeError" ELSE "fail"
      [] OTHER -> "TypeError"

RECURSIVE CheckKeys(_, _, _)
CheckKeys(c, keys, i) ==
    IF i > Len(keys) THEN "pass"
    ELSE LET r == KeyCheck(c, keys[i][1], keys[i][2])
         IN  IF r = "pass" THEN CheckKeys(c, keys, i + 1) ELSE r

\* d.get(key, {})
DictGetOrEmpty(d, key) == IF DictHas(d, key) THEN DictGet(d, key) ELSE PyDict(<<>>)

CheckTopLevel(config_data) == CheckKeys(config_data, required_keys, 1)

CheckSettings(config_data) ==
    CheckKeys(DictGetOrEmpty(config_data, "settings"), settings_keys, 1)

CheckUi(config_data) ==
    CheckKeys(DictGetOrEmpty(DictGetOrEmpty(config_data, "settings"), "ui"), ui_keys, 1)

CheckPaths(config_data) ==
    CheckKeys(DictGetOrEmpty(config_data, "paths"), paths_keys, 1)

\* _config_isvalid without its loop over the UI keys
ConfigIsValidNoUi(config_data) ==
    LET Verdict(r) == IF r = "fail" THEN "invalid" ELSE r
    IN  IF CheckTopLevel(config_data) # "pass" THEN Verdict(CheckTopLevel(config_data))
        ELSE IF CheckSettings(config_data) # "pass" THEN Verdict(CheckSettings(config_data))
        ELSE IF CheckPaths(config_data) # "pass" THEN Verdict(CheckPaths(config_data))
        ELSE "valid"

\* "valid" (True), "invalid" (False) or "TypeError" (raised)
ConfigIsValid(config_data) ==
    LET Verdict(r) == IF r = "fail" THEN "invalid" ELSE r
    IN  IF CheckTopLevel(config_data) # "pass" THEN Verdict(CheckTopLevel(config_data))
        ELSE IF CheckSettings(config_data) # "pass" THEN Verdict(CheckSettings(config_data))
        ELSE IF CheckUi(config_data) # "pass" THEN Verdict(CheckUi(config_data))
        ELSE IF CheckPaths(config_data) # "pass" THEN Verdict(CheckPaths(config_data))
        ELSE "valid"

(***************************************************************************)
(* json.dump(config_data, config_file, indent=4): the encoder yields the   *)
(* text chunk by chunk and each chunk is written as it comes, so a value   *)
(* or a key it cannot encode raises TypeError after the chunks before it   *)
(* are in the file.  The text is a sequence of tokens (the indentation is  *)
(* white space, which the decoder skips).                                  *)
(***************************************************************************)
Tok(k, s) == [k |-> k, s |-> s]
LBrace == Tok("punct", "{")
RBrace == Tok("punct", "}")
LBracket == Tok("punct", "[")
RBracket == Tok("punct", "]")
Comma == Tok("punct", ",")
Colon == Tok("punct", ":")

\* a dict key as the encoder writes it: [ok, toks]
EncodeKey(k) ==
    CASE k.t = "str" -> [ok |-> TRUE, toks |-> <<Tok("str", k.s)>>]
      [] k.t = "int" -> [ok |-> TRUE, toks |-> <<Tok("str", k.s)>>]
      [] k.t = "bool" ->
           [ok |-> TRUE, toks |-> <<Tok("str", IF k = PyTrue THEN "true" ELSE "false")>>]
      [] k.t = "NoneType" -> [ok |-> TRUE, toks |-> <<Tok("str", "null")>>]
      [] OTHER -> [ok |-> FALSE, toks |-> <<>>]

RECURSIVE Encode(_), EncodeList(_, _, _), EncodeDict(_, _, _)

\* the chunks written for value v, and whether the encoder got through: [ok, toks]
Encode(v) ==
    CASE v.t = "str" -> [ok |-> TRUE, toks |-> <<Tok("str", v.s)>>]
      [] v.t = "int" -> [ok |-> TRUE, toks |-> <<Tok("num", v.s)>>]
      [] v.t = "bool" ->
           [ok |-> TRUE, toks |-> <<Tok("lit", IF v = PyTrue THEN "true" ELSE "false")>>]
      [] v.t = "NoneType" -> [ok |-> TRUE, toks |-> <<Tok("lit", "null")>>]
      [] v.t \in {"list", "tuple"} -> EncodeList(v.items, 1, <<LBracket>>)
      [] v.t = "dict" -> EncodeDict(v.items, 1, <<LBrace>>)
      [] OTHER -> [ok |-> FALSE, toks |-> <<>>]

EncodeList(xs, i, out) ==
    IF i > Len(xs) THEN [ok |-> TRUE, toks |-> Append(out, RBracket)]
    ELSE LET sep == IF i = 1 THEN <<>> ELSE <<Comma>>
             e == Encode(xs[i])
         IN  IF e.ok THEN EncodeList(xs, i + 1, out \o sep \o e.toks)
             ELSE [ok |-> FALSE, toks |-> out \o sep \o e.toks]

EncodeDict(kvs, i, out) ==
    IF i > Len(kvs) THEN [ok |-> TRUE, toks |-> Append(out, RBrace)]
    ELSE LET k == EncodeKey(kvs[i][1])
             sep == IF i = 1 THEN <<>> ELSE <<Comma>>
             e == Encode(kvs[i][2])
         IN  IF ~k.ok THEN [ok |-> FALSE, toks |-> out]
             ELSE IF e.ok
                  THEN EncodeDict(kvs, i + 1, out \o sep \o k.toks \o <<Colon>> \o e.toks)
                  ELSE [ok |-> FALSE, toks |-> out \o sep \o k.toks \o <<Colon>> \o e.toks]

JsonDump(obj) == Encode(obj)

(***************************************************************************)
(* json.load(config_file): a recursive-descent decoder over the tokens.    *)
(* Each parser returns [ok, v, i]: the value and the next position.  An    *)
(* object's repeated key keeps its first place and takes its last value.   *)
(***************************************************************************)
ParseFail == [ok |-> FALSE, v |-> PyNone, i |-> 0]

RECURSIVE ParseValue(_, _), ParseElements(_, _, _), ParseMembers(_, _, _)

ParseValue(toks, i) ==
    IF i > Len(toks) THEN ParseFail
    ELSE LET tk == toks[i]
         IN  CASE tk.k = "str" -> [ok |-> TRUE, v |-> PyStr(tk.s), i |-> i + 1]
               [] tk.k = "num" -> [ok |-> TRUE, v |-> PyInt(tk.s), i |-> i + 1]
               [] tk = Tok("lit", "true") -> [ok |-> TRUE, v |-> PyTrue, i |-> i + 1]
               [] tk = Tok("lit", "false") -> [ok |-> TRUE, v |-> PyFalse, i |-> i + 1]
               [] tk = Tok("lit", "null") -> [ok |-> TRUE, v |-> PyNone, i |-> i + 1]
               [] tk = LBracket ->
                    IF i + 1 <= Len(toks) /\ toks[i + 1] = RBracket
                    THEN [ok |-> TRUE, v |-> PyList(<<>>), i |-> i + 2]
                    ELSE ParseElements(toks, i + 1, <<>>)
               [] tk = LBrace ->
                    IF i + 1 <= Len(toks) /\ toks[i + 1] = RBrace
                    THEN [ok |-> TRUE, v |-> PyDict(<<>>), i |-> i + 2]
                    ELSE ParseMembers(toks, i + 1, <<>>)
               [] OTHER -> ParseFail

\* the elements of an array from position i on, acc the ones read
ParseElements(toks, i, acc) ==
    LET e == ParseValue(toks, i)
    IN  IF ~e.ok \/ e.i > Len(toks) THEN ParseFail
        ELSE IF toks[e.i] = RBracket
             THEN [ok |-> TRUE, v |-> PyList(Append(acc, e.v)), i |-> e.i + 1]
        ELSE IF toks[e.i] = Comma THEN ParseElements(toks, e.i + 1, Append(acc, e.v))
        ELSE ParseFail

\* the members of an object from position i on, acc the ones read
ParseMembers(toks, i, acc) ==
    IF i + 1 > Len(toks) \/ toks[i].k # "str" \/ toks[i + 1] # Colon THEN ParseFail
    ELSE LET e == ParseValue(toks, i + 2)
             kvs == DictSet(acc, PyStr(toks[i].s), e.v)
         IN  IF ~e.ok \/ e.i > Len(toks) THEN ParseFail
             ELSE IF toks[e.i] = RBrace
                  THEN [ok |-> TRUE, v |-> PyDict(kvs), i |-> e.i + 1]
             ELSE IF toks[e.i] = Comma THEN ParseMembers(toks, e.i + 1, kvs)
             ELSE ParseFail

\* [ok, v]: the whole text is one JSON value, or JSONDecodeError
JsonLoad(text) ==
    LET r == ParseValue(text, 1)
    IN  IF r.ok /\ r.i = Len(text) + 1 THEN [ok |-> TRUE, v |-> r.v]
        ELSE [ok |-> FALSE, v |-> PyNone]

(***************************************************************************)
(* Python's ==, on the values above: a list never equals a tuple, dicts    *)
(* compare by key, whatever the order of their items.                      *)
(***************************************************************************)
RECURSIVE PyEq(_, _)
PyEq(a, b) ==
    /\ a.t = b.t
    /\ a.s = b.s
    /\ Len(a.items) = Len(b.items)
    /\ IF a.t = "dict"
       THEN \A i \in 1..Len(a.items) :
                \E j \in 1..Len(b.items) :
                    /\ a.items[i][1] = b.items[j][1]
                    /\ PyEq(a.items[i][2], b.items[j][2])
       ELSE \A i \in 1..Len(a.items) : PyEq(a.items[i], b.items[i])

(***************************************************************************)
(* The configuration documents of the model: the document of the schema    *)
(* with each of its ten required keys kept, left out or given a value of a *)
(* wrong type (one key changed, or all of them), and the intact document   *)
(* with one more top-level field.                                          *)
(***************************************************************************)
ConfigKeys == {"appName", "version", "settings", "paths", "ui", "logLevel",
               "gui", "theme", "cacheDirectory", "logFile"}

Intact == [k \in ConfigKeys |-> "ok"]

Variations ==
    {Intact}
    \cup {[Intact EXCEPT ![k] = c] : k \in ConfigKeys, c \in {"missing", "wrong"}}
    \cup {[k \in ConfigKeys |-> c] : c \in {"missing", "wrong"}}

Field(var, key, good, bad) ==
    IF var[key] = "missing" THEN <<>>
    ELSE << <<PyStr(key), IF var[key] = "ok" THEN good ELSE bad>> >>

UiOf(var) ==
    PyDict(Field(var, "gui", PyTrue, PyInt("1"))
           \o Field(var, "theme", PyStr("dark"), PyNone))

SettingsOf(var) ==
    PyDict(Field(var, "ui", UiOf(var), PyStr("x-gui-y"))
           \o Field(var, "logLevel", PyStr("info"), PyInt("20")))

PathsOf(var) ==
    PyDict(Field(var, "cacheDirectory", PyStr("cache"), PyList(<<PyStr("cache")>>))
           \o Field(var, "logFile", PyStr("logs/app.log"), PyFalse))

\* what a caller may add to the document, as the items of one more field
ExtraItems ==
    { <<>>,
      << <<PyStr("extra"), PyList(<<PyInt("1"), PyStr("a"), PyNone>>)>> >>,
      << <<PyStr("extra"), PyDict(<< <<PyStr("k"), PyFalse>>, <<PyStr("n"), PyDict(<<>>)>> >>)>> >>,
      << <<PyStr("extra"), PyTuple(<<PyInt("1"), PyInt("2")>>)>> >>,
      << <<PyStr("extra"), PyDict(<< <<PyInt("1"), PyStr("a")>> >>)>> >>,
      << <<PyStr("extra"), PySet(<<PyInt("1")>>)>> >>,
      << <<PyStr("extra"), PyDict(<< <<PyTuple(<<PyInt("1")>>), PyStr("a")>> >>)>> >> }

DocOf(var, extra) ==
    PyDict(Field(var, "appName", PyStr("CacheLauncher"), PyInt("7"))
           \o Field(var, "version", PyStr("1.0"), PyNone)
           \o Field(var, "settings", SettingsOf(var),
                    PyList(<<PyStr("ui"), PyStr("logLevel")>>))
           \o Field(var, "paths", PathsOf(var), PyStr("x-logFile-y"))
           \o extra)

Docs ==
    {DocOf(var, <<>>) : var \in Variations}
    \cup {DocOf(Intact, extra) : extra \in ExtraItems}

Absent == [exists |-> FALSE, text |-> <<>>]
Stored(text) == [exists |-> TRUE, text |-> text]

\* what config.json may hold before the first call
InitialFiles ==
    {Absent}
    \cup {Stored(text) : text \in
            { <<>>, <<LBrace>>, <<LBrace, RBrace, RBrace>>,
              <<Tok("num", "5")>>, <<Tok("lit", "null")>>, <<Tok("lit", "true")>>,
              <<Tok("str", "CacheLauncher")>>, <<Tok("str", "x-appName-y")>>,
              <<LBracket, RBracket>>, <<LBracket, Tok("str", "appName"), RBracket>> }}
    \cup {Stored(JsonDump(DocOf(var, <<>>)).toks) : var \in Variations}

NoCfgCall == [op |-> "none", arg |-> PyNone, before |-> Absent, outcome |-> "none",
              ret |-> PyNone]
NoSave == [outcome |-> "none", arg |-> PyNone]

\* get_config(): the file is only read
GetConfig ==
    LET loaded == JsonLoad(file.text)
        verdict == ConfigIsValid(loaded.v)
        outcome == IF ~file.exists THEN "NotFound"
                   ELSE IF ~loaded.ok THEN "ParseError"
                   ELSE IF verdict = "TypeError" THEN "TypeError"
                   ELSE IF verdict = "invalid" THEN "ValidationError"
                   ELSE "ok"
    IN  /\ cfgCall' = [op |-> "get", arg |-> PyNone, before |-> file, outcome |-> outcome,
                       ret |-> IF outcome = "ok" THEN loaded.v ELSE PyNone]
        /\ UNCHANGED <<file, lastSave>>
        /\ UNCHANGED <<apiVars, docVars>>

\* save_config(config_data) with the file opened in append mode
SaveConfigAppend(config_data) ==
    LET verdict == ConfigIsValid(config_data)
        dumped == JsonDump(config_data)
        outcome == IF verdict = "TypeError" THEN "TypeError"
                   ELSE IF verdict = "invalid" THEN "ValidationError"
                   ELSE IF ~dumped.ok THEN "SerializationError"
                   ELSE "ok"
    IN  /\ file' = IF verdict = "valid" THEN Stored(file.text \o dumped.toks) ELSE file
        /\ cfgCall' = [op |-> "save", arg |-> config_data, before |-> file,
                       outcome |-> outcome, ret |-> PyNone]
        /\ lastSave' = [outcome |-> outcome, arg |-> config_data]
        /\ UNCHANGED <<apiVars, docVars>>

\* save_config(config_data): open(..., 'w') empties (or creates) the file, then
\* json.dump writes into it until it is done or raises
SaveConfig(config_data) ==
    LET verdict == ConfigIsValid(config_data)
        dumped == JsonDump(config_data)
        outcome == IF verdict = "TypeError" THEN "TypeError"
                   ELSE IF verdict = "invalid" THEN "ValidationError"
                   ELSE IF ~dumped.ok THEN "SerializationError"
                   ELSE "ok"
    IN  /\ file' = IF verdict = "valid" THEN Stored(dumped.toks) ELSE file
        /\ cfgCall' = [op |-> "save", arg |-> config_data, before |-> file,
                       outcome |-> outcome, ret |-> PyNone]
        /\ lastSave' = [outcome |-> outcome, arg |-> config_data]
        /\ UNCHANGED <<apiVars, docVars>>

(***************************************************************************)
(* The schema of section 3 of the specification, stated on its own: the    *)
(* ten required places and the type each holds.                            *)
(***************************************************************************)
Schema ==
    { [path |-> <<"appName">>, ty |-> "str"],
      [path |-> <<"version">>, ty |-> "str"],
      [path |-> <<"settings">>, ty |-> "dict"],
      [path |-> <<"paths">>, ty |-> "dict"],
      [path |-> <<"settings", "ui">>, ty |-> "dict"],
      [path |-> <<"settings", "logLevel">>, ty |-> "str"],
      [path |-> <<"settings", "ui", "gui">>, ty |-> "bool"],
      [path |-> <<"settings", "ui", "theme">>, ty |-> "str"],
      [path |-> <<"paths", "cacheDirectory">>, ty |-> "str"],
      [path |-> <<"paths", "logFile">>, ty |-> "str"] }

\* the value at a path of keys of document d: [found, v]
RECURSIVE At(_, _)
At(d, path) ==
    IF path = <<>> THEN [found |-> TRUE, v |-> d]
    ELSE IF d.t = "dict" /\ DictHas(d, Head(path)) THEN At(DictGet(d, Head(path)), Tail(path))
    ELSE [found |-> FALSE, v |-> PyNone]

\* document d misses a required key or holds a value of a wrong type
Defective(d) == \E e \in Schema : ~At(d, e.path).found \/ At(d, e.path).v.t # e.ty

\* the document the file held before the last call, when it held a JSON object
FileDocBefore == JsonLoad(cfgCall.before.text)
FileHeldObject ==
    cfgCall.before.exists /\ FileDocBefore.ok /\ FileDocBefore.v.t = "dict"

\* C1: a configuration document (a JSON object, a dict) that misses a required
\* key or holds a wrong-typed value is rejected with a validation error by
\* save_config (the argument) and by get_config (the file's document), and the
\* file is after the call what it was before.
C1_DefectiveRejected ==
    /\ (cfgCall.op = "save" /\ Defective(cfgCall.arg))
           => (cfgCall.outcome = "ValidationError" /\ file = cfgCall.before)
    /\ (cfgCall.op = "get" /\ FileHeldObject /\ Defective(FileDocBefore.v))
           => (cfgCall.outcome = "ValidationError" /\ file = cfgCall.before)

\* C1's case: a document with a wrong-typed settings.ui.gui was passed to
\* save_config while the file held a document, and was rejected.
C1_Witness ==
    /\ cfgCall.op = "save"
    /\ At(cfgCall.arg, <<"settings", "ui", "gui">>).found
    /\ At(cfgCall.arg, <<"settings", "ui", "gui">>).v.t # "bool"
    /\ cfgCall.before.exists
    /\ cfgCall.before.text # <<>>
    /\ cfgCall.outcome = "ValidationError"

\* C2: after any save_config call the file is what it was before the call or
\* the complete serialization of the document passed.
C2_NoPartialWrite ==
    cfgCall.op = "save"
        => \/ file = cfgCall.before
           \/ JsonDump(cfgCall.arg).ok /\ file = Stored(JsonDump(cfgCall.arg).toks)

\* a value json writes and reads back as itself: str, int, bool, None, lists
\* and dicts with str keys of such values
RECURSIVE JsonNative(_)
JsonNative(v) ==
    CASE v.t \in {"str", "int", "bool", "NoneType"} -> TRUE
      [] v.t = "list" -> \A i \in 1..Len(v.items) : JsonNative(v.items[i])
      [] v.t = "dict" ->
           \A i \in 1..Len(v.items) : v.items[i][1].t = "str" /\ JsonNative(v.items[i][2])
      [] OTHER -> FALSE

\* C3 as stated: get_config after a successful save_config(document) returns a
\* document equal to the one saved, whatever fields it has beyond the schema's.
C3_RoundTripAnyDocument ==
    (cfgCall.op = "get" /\ lastSave.outcome = "ok")
        => (cfgCall.outcome = "ok" /\ PyEq(cfgCall.ret, lastSave.arg))

\* C3, amended: the round trip holds for the documents built of JSON's own
\* values (str, int, bool, None, lists, dicts with str keys).
C3_RoundTripJsonNative ==
    (cfgCall.op = "get" /\ lastSave.outcome = "ok" /\ JsonNative(lastSave.arg))
        => (cfgCall.outcome = "ok" /\ PyEq(cfgCall.ret, lastSave.arg))

\* C3's case: a document with a field beyond the schema's was saved over an
\* older file and read back.
C3_Witness ==
    /\ cfgCall.op = "get"
    /\ lastSave.outcome = "ok"
    /\ JsonNative(lastSave.arg)
    /\ DictHas(lastSave.arg, "extra")
    /\ DictGet(lastSave.arg, "extra").t = "dict"
    /\ cfgCall.outcome = "ok"

\* C7: get_config's outcome is NotFound for an absent file, ParseError for
\* content that is not JSON, ValidationError for JSON of any type that does not
\* conform to the schema, and the parsed document otherwise.
C7_Classified ==
    cfgCall.op = "get"
        => LET expected ==
                   IF ~cfgCall.before.exists THEN "NotFound"
                   ELSE IF ~FileDocBefore.ok THEN "ParseError"
                   ELSE IF FileDocBefore.v.t # "dict" \/ Defective(FileDocBefore.v)
                        THEN "ValidationError"
                   ELSE "ok"
           IN  /\ cfgCall.outcome = expected
               /\ expected = "ok" => cfgCall.ret = FileDocBefore.v

(***************************************************************************)
(* The API documentation.  A snapshot is the document the documentation    *)
(* endpoint returned: the top-level keys it has, its declared tags in      *)
(* order, and its operations in the order documentation["paths"] and each  *)
(* path's methods are walked.                                              *)
(***************************************************************************)
MaxOps == 2

TagDoc(name) == [name |-> name, description |-> "About " \o name]
Snapshot(tags, ops) == [keys |-> {"tags", "paths"}, tags |-> tags, paths |-> ops]

\* self.documentation = {}
EmptyDoc == [keys |-> {}, tags |-> <<>>, paths |-> <<>>]

\* str.lower() on the tag names of the model
Lower(name) ==
    CASE name = "System" -> "system"
      [] name = "Org" -> "org"
      [] name = "Ghost" -> "ghost"
      [] OTHER -> name

\* the (path, method) places of an operation, in the order they are walked
Slots == << <<"/v2/a", "get">>, <<"/v2/a", "post">>, <<"/v2/b", "get">>, <<"/v2/b", "post">> >>
OperationIds == {"getThing", "setThing"}
DeclaredTagLists ==
    { <<>>, <<TagDoc("System")>>, <<TagDoc("Org"), TagDoc("System")>>,
      <<TagDoc("System"), TagDoc("system")>> }
OperationTagLists ==
    { <<>>, <<"System">>, <<"org">>, <<"System", "org">>, <<"Ghost">> }

\* the increasing choices of at most MaxOps places
SlotChoices ==
    {pick \in UNION {[1..n -> 1..Len(Slots)] : n \in 0..MaxOps} :
        \A i \in 1..Len(pick) : \A j \in 1..Len(pick) : i < j => pick[i] < pick[j]}

OperationLists ==
    UNION {
        {[i \in 1..Len(pick) |->
             [path |-> Slots[pick[i]][1], method |-> Slots[pick[i]][2],
              operationId |-> ids[i], tags |-> tgs[i]]] :
            ids \in [1..Len(pick) -> OperationIds],
            tgs \in [1..Len(pick) -> OperationTagLists]} :
        pick \in SlotChoices}

Snapshots ==
    {EmptyDoc} \cup {Snapshot(tags, ops) : tags \in DeclaredTagLists, ops \in OperationLists}

\* d[k] = v on a mapping
Put(d, k, v) == (k :> v) @@ d

\* { tag["name"].lower(): {"description": ..., "methods": {}} for tag in tags }
RECURSIVE TagEntries(_, _, _)
TagEntries(tags, i, acc) ==
    IF i > Len(tags) THEN acc
    ELSE TagEntries(tags, i + 1,
                    Put(acc, Lower(tags[i].name),
                        [description |-> tags[i].description, methods |-> <<>>]))

\* SortOperation with ["methods"][method] = {operationId: {...}} in place of
\* setdefault: a method's earlier operations are dropped
RECURSIVE SortOperationOverwrite(_, _, _)
SortOperationOverwrite(paths, op, j) ==
    IF j > Len(op.tags) THEN [ok |-> TRUE, paths |-> paths]
    ELSE LET key == Lower(op.tags[j])
         IN  IF key \notin DOMAIN paths THEN [ok |-> FALSE, paths |-> paths]
             ELSE SortOperationOverwrite(
                      Put(paths, key,
                          [paths[key] EXCEPT
                              !.methods = Put(paths[key].methods, op.method,
                                              Put(<<>>, op.operationId, [path |-> op.path]))]),
                      op, j + 1)

\* SortOperation passing over a tag that is not declared
RECURSIVE SortOperationSkipUndeclared(_, _, _)
SortOperationSkipUndeclared(paths, op, j) ==
    IF j > Len(op.tags) THEN [ok |-> TRUE, paths |-> paths]
    ELSE LET key == Lower(op.tags[j])
         IN  IF key \notin DOMAIN paths THEN SortOperationSkipUndeclared(paths, op, j + 1)
             ELSE LET methods == paths[key].methods
                      byId == IF op.method \in DOMAIN methods THEN methods[op.method] ELSE <<>>
                  IN  SortOperationSkipUndeclared(
                          Put(paths, key,
                              [paths[key] EXCEPT
                                  !.methods = Put(methods, op.method,
                                                  Put(byId, op.operationId,
                                                      [path |-> op.path]))]),
                          op, j + 1)

\* sorted_docs["paths"][tag.lower()]["methods"].setdefault(method, {})[operationId] = {...}
\* for the tags of one operation from the j-th on: [ok, paths]
RECURSIVE SortOperation(_, _, _)
SortOperation(paths, op, j) ==
    IF j > Len(op.tags) THEN [ok |-> TRUE, paths |-> paths]
    ELSE LET key == Lower(op.tags[j])
         IN  IF key \notin DOMAIN paths THEN [ok |-> FALSE, paths |-> paths]
             ELSE LET methods == paths[key].methods
                      byId == IF op.method \in DOMAIN methods THEN methods[op.method] ELSE <<>>
                      entry == [path |-> op.path]
                  IN  SortOperation(
                          Put(paths, key,
                              [paths[key] EXCEPT
                                  !.methods = Put(methods, op.method,
                                                  Put(byId, op.operationId, entry))]),
                          op, j + 1)

\* the two loops over documentation["paths"]: [ok, paths]
RECURSIVE SortOperations(_, _, _)
SortOperations(paths, ops, i) ==
    IF i > Len(ops) THEN [ok |-> TRUE, paths |-> paths]
    ELSE LET r == SortOperation(paths, ops[i], 1)
         IN  IF r.ok THEN SortOperations(r.paths, ops, i + 1) ELSE r

\* get_sorted_docs(): [outcome, paths]; a KeyError leaves nothing returned
GetSortedDocs(doc) ==
    IF "tags" \notin doc.keys \/ "paths" \notin doc.keys
    THEN [outcome |-> "KeyError", paths |-> <<>>]
    ELSE LET r == SortOperations(TagEntries(doc.tags, 1, <<>>), doc.paths, 1)
         IN  IF r.ok THEN [outcome |-> "ok", paths |-> r.paths]
             ELSE [outcome |-> "KeyError", paths |-> <<>>]

NoSorted == [outcome |-> "none", paths |-> <<>>]

\* a call of get_sorted_docs on the current snapshot
SortDocs ==
    /\ sorted' = GetSortedDocs(documentation)
    /\ UNCHANGED <<documentation, cfgVars, apiVars>>

\* the lowercased names of the declared tags of a snapshot
DeclaredTags(doc) == {Lower(doc.tags[i].name) : i \in 1..Len(doc.tags)}

\* the lowercased tags an operation carries
TagsOf(op) == {Lower(op.tags[j]) : j \in 1..Len(op.tags)}

\* every tag an operation of the snapshot references is declared
OnlyDeclaredTags(doc) ==
    /\ doc.keys = {"tags", "paths"}
    /\ \A i \in 1..Len(doc.paths) : TagsOf(doc.paths[i]) \subseteq DeclaredTags(doc)

\* no two operations with the same method and a common tag share an identifier
DistinctOperationIds(doc) ==
    \A i \in 1..Len(doc.paths) : \A j \in 1..Len(doc.paths) :
        (/\ i # j
         /\ doc.paths[i].method = doc.paths[j].method
         /\ doc.paths[i].operationId = doc.paths[j].operationId)
            => TagsOf(doc.paths[i]) \cap TagsOf(doc.paths[j]) = {}

\* the index has one entry per declared tag, keyed by the lowercased name
OneEntryPerTag(doc, index) == DOMAIN index = DeclaredTags(doc)

\* every operation is under each of its tags, under its method and identifier,
\* with its path
NoOperationLost(doc, index) ==
    \A i \in 1..Len(doc.paths) :
        LET op == doc.paths[i]
        IN  \A tag \in TagsOf(op) :
                /\ op.method \in DOMAIN index[tag].methods
                /\ op.operationId \in DOMAIN index[tag].methods[op.method]
                /\ index[tag].methods[op.method][op.operationId].path = op.path

\* every entry of the index is an operation of the snapshot that carries the tag
NoOperationMisplaced(doc, index) ==
    \A tag \in DOMAIN index :
        \A method \in DOMAIN index[tag].methods :
            \A id \in DOMAIN index[tag].methods[method] :
                \E i \in 1..Len(doc.paths) :
                    /\ doc.paths[i].method = method
                    /\ doc.paths[i].operationId = id
                    /\ doc.paths[i].path = index[tag].methods[method][id].path
                    /\ tag \in TagsOf(doc.paths[i])

\* C6 as stated: for every snapshot whose operations reference only declared
\* tags, get_sorted_docs returns one entry per declared tag, holding exactly
\* the operations that carry the tag: none lost, none misplaced.
C6_ExactIndexAnySnapshot ==
    (sorted.outcome # "none" /\ OnlyDeclaredTags(documentation))
        => /\ sorted.outcome = "ok"
           /\ OneEntryPerTag(documentation, sorted.paths)
           /\ NoOperationLost(documentation, sorted.paths)
           /\ NoOperationMisplaced(documentation, sorted.paths)

\* C6, amended: the same, for the snapshots in which no two operations with
\* the same method and a common tag share an operation identifier (tags being
\* compared, and declared tags counted, by lowercased name).
C6_ExactIndexDistinctIds ==
    (/\ sorted.outcome # "none"
     /\ OnlyDeclaredTags(documentation)
     /\ DistinctOperationIds(documentation))
        => /\ sorted.outcome = "ok"
           /\ OneEntryPerTag(documentation, sorted.paths)
           /\ NoOperationLost(documentation, sorted.paths)
           /\ NoOperationMisplaced(documentation, sorted.paths)

\* C6's case: two declared tags, two operations of the same method, one of
\* them carrying both tags, sorted into an index of two entries.
C6_Witness ==
    /\ sorted.outcome = "ok"
    /\ OnlyDeclaredTags(documentation)
    /\ DistinctOperationIds(documentation)
    /\ Cardinality(DeclaredTags(documentation)) = 2
    /\ Len(documentation.paths) = 2
    /\ documentation.paths[1].method = documentation.paths[2].method
    /\ Cardinality(TagsOf(documentation.paths[1])) = 1
    /\ Cardinality(TagsOf(documentation.paths[2])) = 2

\* C8: get_sorted_docs fails with a KeyError and returns no index whenever an
\* operation of the snapshot references a tag with no entry, by lowercased
\* name, in the declared tags.
C8_UndeclaredTagKeyError ==
    (/\ sorted.outcome # "none"
     /\ \E i \in 1..Len(documentation.paths) :
            ~(TagsOf(documentation.paths[i]) \subseteq DeclaredTags(documentation)))
        => (sorted.outcome = "KeyError" /\ sorted.paths = <<>>)

\* C8's case: tags are declared, a first operation carries a declared tag and
\* a later one an undeclared tag.
C8_Witness ==
    /\ sorted.outcome = "KeyError"
    /\ Len(documentation.tags) = 2
    /\ Len(documentation.paths) = 2
    /\ TagsOf(documentation.paths[1]) # {}
    /\ TagsOf(documentation.paths[1]) \subseteq DeclaredTags(documentation)
    /\ ~(TagsOf(documentation.paths[2]) \subseteq DeclaredTags(documentation))

(***************************************************************************)
(* The NinjaRMM API client.  Time is in whole seconds; the token endpoint  *)
(* numbers the access tokens it hands out, so that a new token differs     *)
(* from every older one.  A call's exchanges with the network are kept, in *)
(* order, in call.net.                                                     *)
(***************************************************************************)
MaxTime == 3
MaxExpires == 1
MaxTokens == 2

valid_environments == {"app", "us2", "ca", "eu", "oc"}

\* NINJA_ENVIRONMENT as os.getenv gives it: "" stands for unset or empty
EnvironmentNames == valid_environments \cup {"", "xx"}

\* the four other variables, and which of them are unset in a run
OtherEnvVars == {"NINJA_CLIENT_ID", "NINJA_CLIENT_SECRET", "NINJA_BASE_URL", "NINJA_DOCS_PATH"}
UnsetChoices == {{}, OtherEnvVars} \cup {{v} : v \in OtherEnvVars}

docs_path == "/apidocs/core"
token_path == "/ws/oauth/token"

\* the documents the documentation endpoint serves
ServedDocs ==
    { Snapshot(<<TagDoc("System")>>,
               <<[path |-> "/v2/a", method |-> "get", operationId |-> "getThing",
                  tags |-> <<"System">>]>>),
      Snapshot(<<TagDoc("System"), TagDoc("Org")>>,
               <<[path |-> "/v2/a", method |-> "get", operationId |-> "getThing",
                  tags |-> <<"System">>],
                 [path |-> "/v2/b", method |-> "post", operationId |-> "setThing",
                  tags |-> <<"Org">>]>>) }

RequestMethods == {"get", "post"}

NoOauth == [access_token |-> 0, token_type |-> "", expires_in |-> 0, obtained_at |-> 0]

\* is_expired with >= for >
IsExpiredAtOrAfter(o, t) == t >= o.obtained_at + o.expires_in

\* OAUTHResponse.is_expired(), time.time() being t
IsExpired(o, t) == t > o.obtained_at + o.expires_in

\* one exchange with the network
TokenEvent(ok, token) ==
    [kind |-> "token", method |-> "post", path |-> token_path, ok |-> ok, token |-> token]
HttpEvent(method, path, ok, token) ==
    [kind |-> "http", method |-> method, path |-> path, ok |-> ok, token |-> token]

\* what the token endpoint may answer
TokenResponses ==
    {[ok |-> FALSE, expires_in |-> 0]}
    \cup {[ok |-> TRUE, expires_in |-> e] : e \in 0..MaxExpires}

\* _request_credentials(), answered with resp at time t, n tokens handed out
\* before: [ok, oauth, net, issued]
RequestCredentials(resp, t, n) ==
    IF resp.ok
    THEN [ok |-> TRUE,
          oauth |-> [access_token |-> n + 1, token_type |-> "Bearer",
                     expires_in |-> resp.expires_in, obtained_at |-> t],
          net |-> <<TokenEvent(TRUE, n + 1)>>, issued |-> n + 1]
    ELSE [ok |-> FALSE, oauth |-> NoOauth, net |-> <<TokenEvent(FALSE, 0)>>, issued |-> n]

\* _authenticate() asking the token endpoint a second time when the first
\* request fails
AuthenticateRetry(o, t, resp, delay, n) ==
    IF IsExpired(o, t)
    THEN LET c == RequestCredentials(resp, t + delay, n)
         IN  [ok |-> c.ok, oauth |-> IF c.ok THEN c.oauth ELSE o,
              net |-> IF c.ok THEN c.net ELSE c.net \o c.net,
              issued |-> c.issued, now |-> t + delay]
    ELSE [ok |-> TRUE, oauth |-> o, net |-> <<>>, issued |-> n, now |-> t]

\* _authenticate() at time t with credential o held; the token endpoint, if
\* asked, answers resp after delay: [ok, oauth, net, issued, now]
Authenticate(o, t, resp, delay, n) ==
    IF IsExpired(o, t)
    THEN LET c == RequestCredentials(resp, t + delay, n)
         IN  [ok |-> c.ok, oauth |-> IF c.ok THEN c.oauth ELSE o, net |-> c.net,
              issued |-> c.issued, now |-> t + delay]
    ELSE [ok |-> TRUE, oauth |-> o, net |-> <<>>, issued |-> n, now |-> t]

\* request() building its Authorization header before _authenticate()
DoRequestStaleHeader(o, t, n, method, path, resp, delay, httpOk) ==
    LET a == Authenticate(o, t, resp, delay, n)
    IN  IF ~a.ok
        THEN [outcome |-> "CredentialRequestFailure", oauth |-> a.oauth, net |-> a.net,
              issued |-> a.issued, now |-> a.now]
        ELSE [outcome |-> IF httpOk THEN "ok" ELSE "HttpRequestFailure",
              oauth |-> a.oauth,
              net |-> a.net \o <<HttpEvent(method, path, httpOk, o.access_token)>>,
              issued |-> a.issued, now |-> a.now]

\* request(method, path): _authenticate(), then the HTTP request with the
\* held token, then raise_for_status(): [outcome, oauth, net, issued, now]
DoRequest(o, t, n, method, path, resp, delay, httpOk) ==
    LET a == Authenticate(o, t, resp, delay, n)
    IN  IF ~a.ok
        THEN [outcome |-> "CredentialRequestFailure", oauth |-> a.oauth, net |-> a.net,
              issued |-> a.issued, now |-> a.now]
        ELSE [outcome |-> IF httpOk THEN "ok" ELSE "HttpRequestFailure",
              oauth |-> a.oauth,
              net |-> a.net \o <<HttpEvent(method, path, httpOk, a.oauth.access_token)>>,
              issued |-> a.issued, now |-> a.now]

\* the constructor's checks with the list of valid environments left out
EnvironmentErrorNoListCheck(env, unset) ==
    IF env = "" \/ unset # {} THEN "MissingEnvironment" ELSE "none"

\* the constructor's checks of the environment variables: the error raised
EnvironmentError(env, unset) ==
    IF env = "" \/ unset # {} THEN "MissingEnvironment"
    ELSE IF env \notin valid_environments THEN "InvalidEnvironmentValue"
    ELSE "none"

NoCall ==
    [op |-> "none", outcome |-> "none", env |-> "", unset |-> {}, method |-> "",
     path |-> "", net |-> <<>>, pre |-> 0, checked |-> FALSE, expired |-> FALSE,
     checkedAt |-> 0, checkedCred |-> NoOauth, oauthBefore |-> NoOauth,
     docBefore |-> EmptyDoc]

\* the token endpoint and the clock stay within the model's bounds
WithinBounds(resps, delays) ==
    /\ issued + Cardinality({i \in 1..Len(resps) : resps[i].ok}) <= MaxTokens
    /\ now + delays <= MaxTime

\* NinjaRMMAPI(): the checks of the environment, the first credential, then
\* refresh_documentation(); an error leaves no client
Construct ==
    /\ client = "none"
    /\ UNCHANGED <<cfgVars, sorted>>
    /\ \E env \in EnvironmentNames, unset \in UnsetChoices :
         LET err == EnvironmentError(env, unset)
             base == [NoCall EXCEPT !.op = "init", !.env = env, !.unset = unset,
                                    !.method = "get", !.path = docs_path]
         IN  \/ /\ err # "none"
                /\ client' = "failed"
                /\ call' = [base EXCEPT !.outcome = err]
                /\ UNCHANGED <<now, oauth, issued, documentation>>
             \/ /\ err = "none"
                /\ \E delay1 \in 0..1 :
                     LET c == RequestCredentials([ok |-> FALSE, expires_in |-> 0],
                                                 now + delay1, issued)
                     IN  /\ WithinBounds(<<>>, delay1)
                         /\ client' = "failed"
                         /\ call' = [base EXCEPT !.outcome = "CredentialRequestFailure",
                                                 !.net = c.net]
                         /\ now' = now + delay1
                         /\ UNCHANGED <<oauth, issued, documentation>>
             \/ /\ err = "none"
                /\ \E e1 \in 0..MaxExpires, delay1 \in 0..1, gap \in 0..1,
                      resp2 \in TokenResponses, delay2 \in 0..1,
                      httpOk \in BOOLEAN, body \in ServedDocs :
                     LET resp1 == [ok |-> TRUE, expires_in |-> e1]
                         c == RequestCredentials(resp1, now + delay1, issued)
                         at == now + delay1 + gap
                         r == DoRequest(c.oauth, at, c.issued, "get", docs_path,
                                        resp2, delay2, httpOk)
                     IN  /\ WithinBounds(<<resp1, resp2>>, delay1 + gap + delay2)
                         /\ client' = IF r.outcome = "ok" THEN "ready" ELSE "failed"
                         /\ oauth' = IF r.outcome = "ok" THEN r.oauth ELSE oauth
                         /\ documentation' = IF r.outcome = "ok" THEN body ELSE documentation
                         /\ issued' = r.issued
                         /\ now' = r.now
                         /\ call' = [base EXCEPT !.outcome = r.outcome,
                                                 !.net = c.net \o r.net, !.pre = 1,
                                                 !.checked = TRUE,
                                                 !.expired = IsExpired(c.oauth, at),
                                                 !.checkedAt = at,
                                                 !.checkedCred = c.oauth]

\* request(method, path) on a constructed client
Request ==
    /\ client = "ready"
    /\ \E method \in RequestMethods, resp \in TokenResponses, delay \in 0..1,
          httpOk \in BOOLEAN :
         LET r == DoRequest(oauth, now, issued, method, "/v2/a", resp, delay, httpOk)
         IN  /\ WithinBounds(<<resp>>, delay)
             /\ oauth' = r.oauth
             /\ issued' = r.issued
             /\ now' = r.now
             /\ call' = [NoCall EXCEPT !.op = "request", !.outcome = r.outcome,
                                       !.method = method, !.path = "/v2/a",
                                       !.net = r.net, !.checked = TRUE,
                                       !.expired = IsExpired(oauth, now),
                                       !.checkedAt = now, !.checkedCred = oauth,
                                       !.oauthBefore = oauth,
                                       !.docBefore = documentation]
             /\ UNCHANGED <<client, documentation, cfgVars, sorted>>

\* refresh_documentation(): the snapshot is replaced when request() returns
RefreshDocumentation ==
    /\ client = "ready"
    /\ \E resp \in TokenResponses, delay \in 0..1, httpOk \in BOOLEAN,
          body \in ServedDocs :
         LET r == DoRequest(oauth, now, issued, "get", docs_path, resp, delay, httpOk)
         IN  /\ WithinBounds(<<resp>>, delay)
             /\ oauth' = r.oauth
             /\ issued' = r.issued
             /\ now' = r.now
             /\ documentation' = IF r.outcome = "ok" THEN body ELSE documentation
             /\ call' = [NoCall EXCEPT !.op = "refresh", !.outcome = r.outcome,
                                       !.method = "get", !.path = docs_path,
                                       !.net = r.net, !.checked = TRUE,
                                       !.expired = IsExpired(oauth, now),
                                       !.checkedAt = now, !.checkedCred = oauth,
                                       !.oauthBefore = oauth,
                                       !.docBefore = documentation]
             /\ UNCHANGED <<client, cfgVars, sorted>>

\* a second passes between two calls
Tick ==
    /\ now < MaxTime
    /\ now' = now + 1
    /\ UNCHANGED <<client, oauth, issued, call, documentation, cfgVars, sorted>>

\* the exchanges of the last call's request(): the constructor's own
\* credential request comes before them
RequestNet == SubSeq(call.net, call.pre + 1, Len(call.net))

\* the credential request() found held had expired at the time of the check
HeldExpired == call.checkedAt > call.checkedCred.obtained_at + call.checkedCred.expires_in

\* C4: a request made while the held token is expired makes exactly one
\* credential request, first, and the HTTP request that follows is the one
\* asked for and carries the token just obtained; a request made while the
\* held token is not expired makes no credential request and carries the held
\* token.
C4_OneRefreshBeforeRequest ==
    call.checked
        => LET net == RequestNet
               credentialRequests == {i \in 1..Len(net) : net[i].kind = "token"}
               httpRequests == {i \in 1..Len(net) : net[i].kind = "http"}
           IN  /\ HeldExpired
                    => /\ credentialRequests = {1}
                       /\ \A i \in httpRequests :
                              /\ i = 2
                              /\ net[1].ok
                              /\ net[i].token = net[1].token
                              /\ client = "ready" => net[i].token = oauth.access_token
                              /\ net[i].token # call.checkedCred.access_token
                              /\ net[i].method = call.method
                              /\ net[i].path = call.path
                       /\ net[1].ok => httpRequests = {2}
               /\ ~HeldExpired
                    => /\ credentialRequests = {}
                       /\ httpRequests = {1}
                       /\ net[1].token = call.checkedCred.access_token
                       /\ net[1].method = call.method
                       /\ net[1].path = call.path

\* C4's case: request() found the held token expired, obtained a new one and
\* sent the request with it.
C4_Witness ==
    /\ call.op = "request"
    /\ HeldExpired
    /\ Len(RequestNet) = 2
    /\ RequestNet[1].kind = "token"
    /\ RequestNet[2].kind = "http"
    /\ RequestNet[2].token = call.checkedCred.access_token + 1
    /\ call.outcome = "ok"

\* C5 as stated: with an environment name outside app, us2, ca, eu, oc the
\* constructor fails with InvalidEnvironmentValue and makes no network request.
C5_InvalidEnvironmentAlways ==
    (call.op = "init" /\ call.env # "" /\ call.env \notin valid_environments)
        => (call.outcome = "InvalidEnvironmentValue" /\ call.net = <<>> /\ client = "failed")

\* C5, amended: with such an environment name the constructor fails and makes
\* no network request; the error is InvalidEnvironmentValue when the four
\* other variables are set, and MissingEnvironment when one of them is not.
C5_InvalidEnvironmentWhenAllSet ==
    (call.op = "init" /\ call.env # "" /\ call.env \notin valid_environments)
        => /\ call.net = <<>>
           /\ client = "failed"
           /\ call.outcome =
                  IF call.unset = {} THEN "InvalidEnvironmentValue" ELSE "MissingEnvironment"

\* C5's case: every variable set, the environment name not a valid one.
C5_Witness ==
    /\ call.op = "init"
    /\ call.env = "xx"
    /\ call.unset = {}
    /\ call.outcome = "InvalidEnvironmentValue"
    /\ call.net = <<>>

\* C9: is_expired answers true exactly when the time is past
\* obtained_at + expires_in: false at that instant and before, true from one
\* second after it.
C9_ExpiredStrictlyAfter ==
    call.checked => (call.expired <=> HeldExpired)

\* C9's case: the check fell on the very instant obtained_at + expires_in.
C9_Witness ==
    /\ call.checked
    /\ call.checkedCred.expires_in > 0
    /\ call.checkedAt = call.checkedCred.obtained_at + call.checkedCred.expires_in
    /\ ~call.expired

\* the credential request of the last request() or refresh_documentation() failed
CredentialRequestFailed ==
    /\ call.op \in {"request", "refresh"}
    /\ HeldExpired
    /\ Len(RequestNet) >= 1
    /\ RequestNet[1].kind = "token"
    /\ ~RequestNet[1].ok

\* C10: when the credential request that an expired token triggers inside
\* request or refresh_documentation fails, the call fails with that error
\* after this one exchange (no retry, no HTTP request), and the credential and
\* the snapshot are those held before the call.
C10_FailedRefreshChangesNothing ==
    CredentialRequestFailed
        => /\ call.outcome = "CredentialRequestFailure"
           /\ Len(RequestNet) = 1
           /\ oauth = call.oauthBefore
           /\ documentation = call.docBefore

\* C10's case: refresh_documentation found the token expired and the
\* credential request failed, a snapshot being held.
C10_Witness ==
    /\ CredentialRequestFailed
    /\ call.op = "refresh"
    /\ documentation \in ServedDocs
    /\ oauth.access_token > 0

(***************************************************************************)
(* The three specifications.                                               *)
(***************************************************************************)

\* the ConfigHandler under any calls, from any initial file
InitConfig ==
    /\ file \in InitialFiles
    /\ cfgCall = NoCfgCall
    /\ lastSave = NoSave
    /\ now = 0
    /\ client = "none"
    /\ oauth = NoOauth
    /\ issued = 0
    /\ call = NoCall
    /\ documentation = EmptyDoc
    /\ sorted = NoSorted

NextConfig ==
    \/ GetConfig
    \/ \E config_data \in Docs : SaveConfig(config_data)

SpecConfig == InitConfig /\ [][NextConfig]_vars

\* the client from before its construction on
Init ==
    /\ now = 0
    /\ client = "none"
    /\ oauth = NoOauth
    /\ issued = 0
    /\ call = NoCall
    /\ documentation = EmptyDoc
    /\ sorted = NoSorted
    /\ file = Absent
    /\ cfgCall = NoCfgCall
    /\ lastSave = NoSave

Next ==
    \/ Construct
    \/ Request
    \/ RefreshDocumentation
    \/ Tick

Spec == Init /\ [][Next]_vars

\* get_sorted_docs on any snapshot a client may hold
InitDocs ==
    /\ documentation \in Snapshots
    /\ sorted = NoSorted
    /\ now = 0
    /\ client = "ready"
    /\ oauth = [access_token |-> 1, token_type |-> "Bearer", expires_in |-> MaxExpires,
                obtained_at |-> 0]
    /\ issued = 1
    /\ call = NoCall
    /\ file = Absent
    /\ cfgCall = NoCfgCall
    /\ lastSave = NoSave

NextDocs == SortDocs

SpecDocs == InitDocs /\ [][NextDocs]_vars
====
